---- MODULE Spec2Model ----
(***************************************************************************)
(* Memoizer<U, V, F> (src/lib.rs): a wrapped function F: Fn(U) -> V and a  *)
(* HashMap<U, V> of the results already computed.                          *)
(*                                                                         *)
(* Keys and values are objects with an identity (an address) and a         *)
(* content, so that clone(), equality by content and mutation through an   *)
(* alias are distinguishable.  Keys live in kheap, values in vheap (U and  *)
(* V are different types).  The Memoizer owns the objects of its map.  The *)
(* caller owns the argument values in its variables (args): value() takes  *)
(* its argument by value, and what the caller still holds afterwards (the  *)
(* variable of a Copy type, or the original of which it passed a copy) is  *)
(* the object it passed.  The caller also owns the object value() returned *)
(* (results).                                                              *)
(*                                                                         *)
(* Spec takes each value() call as one step.  SpecSteps takes it in the    *)
(* steps of its body (the entry looked up, the function returning or       *)
(* panicking, the value cloned and returned); stack holds the value()      *)
(* calls in progress, the innermost last, and is empty between calls.      *)
(*                                                                         *)
(* seen, invoked, failed, first, returned, origin and last record what the *)
(* calls on the current instance did; the program has no such fields.      *)
(*   seen      the arguments value() was called with                       *)
(*   invoked   how often the wrapped function was invoked, per argument    *)
(*   failed    how many of these invocations failed                        *)
(*   first     the result of the first invocation that returned            *)
(*   returned  the results value() returned, per argument                  *)
(*   origin    the variable whose argument the function was last invoked on*)
(*   last      the operation that led to the state                         *)
(***************************************************************************)
EXTENDS Integers, Sequences, FiniteSets, TLC

VARIABLES function, map, kheap, vheap, args, results, stack,
          seen, invoked, failed, first, returned, origin, last

vars == <<function, map, kheap, vheap, args, results, stack,
          seen, invoked, failed, first, returned, origin, last>>

\* ---------------------------------------------------------------- bounds
\* integer arguments are 2..MaxN (the tests call add_two with 2 and 3)
MaxN == 3
\* vector arguments are <<>>, <<1>>, <<1, 2>>, ... of at most MaxLen elements
MaxLen == 1
\* how often the wrapped function may fail during the life of one instance
MaxFail == 1

\* ------------------------------------------------------- wrapped functions
\* the closures of the tests, and a closure of which only F: Fn(U) -> V is known
Functions == {"add_two", "len", "prepend", "opaque"}

IntArgs == 2..MaxN

VecArgs == {[i \in 1..n |-> i] : n \in 0..MaxLen}

\* the caller's variables that hold arguments, and the one that holds a result
ArgVars == {"v", "v2"}
ResultVars == {"calculated_v"}

\* the values of U the caller passes to an instance wrapping f
Args(f) == IF f \in {"len", "prepend"} THEN VecArgs ELSE IntArgs

\* what an invocation of f on x can return
Results(f, x) ==
    CASE f = "add_two" -> {x + 2}
      [] f = "len"     -> {Len(x)}
      [] f = "prepend" -> {<<3, 2, 1>> \o x}
      [] f = "opaque"  -> {x, x + 1}

\* whether an invocation of f on x can fail (panic) instead of returning
Fails(f, x) == f = "opaque"

Deterministic(f) == f # "opaque"

\* what the caller can turn a returned value into
Mutations(f, v) ==
    IF f = "prepend" THEN {[v EXCEPT ![1] = 23]} ELSE {0}

\* ------------------------------------------------------------ the heaps
None == <<>>
Some(x) == <<x>>

Range(h) == {h[a] : a \in DOMAIN h}

\* the address a new object gets: the least one not in use
Fresh(h) ==
    CHOOSE a \in 1..(Cardinality(DOMAIN h) + 1) :
        /\ a \notin DOMAIN h
        /\ \A b \in 1..(a - 1) : b \in DOMAIN h

\* the heap with content c at address a
Store(h, a, c) == [b \in DOMAIN h \cup {a} |-> IF b = a THEN c ELSE h[b]]

\* dropping every object that has no owner left
Reclaim(h, live) == [b \in DOMAIN h \cap live |-> h[b]]

\* a key that is the argument object itself, not a duplicate of it
KeyAlias(h, a) == a

\* arg.clone(): the address of an independent duplicate of the argument at a
CloneKey(h, a) == Fresh(h)

\* a result that is the stored object itself, not a duplicate of it
ValueAlias(h, a) == a

\* .clone() of the entry's value: the address of an independent duplicate
CloneValue(h, a) == Fresh(h)

\* a lookup that compares keys by identity
FindSame(m, h, k) == {a \in DOMAIN m : a = k}

\* a lookup that takes every key to be equal
FindAny(m, h, k) == DOMAIN m

\* HashMap lookup: the keys of m equal (Eq) to the key object k
Find(m, h, k) == {a \in DOMAIN m : h[a] = h[k]}

\* an insertion that keeps the new entry alone
InsertAlone(m, k, v) == [b \in {k} |-> v]

\* the vacant entry filled: m with the value object v under the key object k
Insert(m, k, v) == Store(m, k, v)

\* a map that keeps what it had
KeepMap(m) == m

\* HashMap::new()
NewMap(m) == <<>>

\* a panic that leaves an entry under the key, with no value
KeepKey(m, k) == Store(m, k, 0)

\* the panic unwinds through the vacant entry of k: nothing is inserted
Unwind(m, k) == m

\* a panic that value() turns into a return
Swallow(o) == "miss"

\* what value() ends with when the function ends with o: value() catches
\* nothing, the panic of the function is the panic of value()
OnPanic(o) == o

\* the contents stored in m for the key content x
StoredIn(m, kh, vh, x) == {vh[m[a]] : a \in {b \in DOMAIN m : kh[b] = x}}

Stored(x) == StoredIn(map, kheap, vheap, x)

\* the key contents of m
KeysIn(m, kh) == {kh[a] : a \in DOMAIN m}

Keys == KeysIn(map, kheap)

\* ----------------------------------------------------------------- state
Zero(f) == [x \in Args(f) |-> 0]

RECURSIVE Sum(_, _)
Sum(f, S) ==
    IF S = {} THEN 0
    ELSE LET x == CHOOSE y \in S : TRUE IN f[x] + Sum(f, S \ {x})

Failures == Sum(failed, DOMAIN failed)

\* the caller's argument variables hold values of U at the addresses 1, 2
VarAddr(s) == IF s = "v" THEN 1 ELSE 2

Init ==
    /\ function \in Functions
    /\ map = NewMap(<<>>)
    /\ \E c \in [ArgVars -> Args(function)] :
          kheap = [a \in {VarAddr(s) : s \in ArgVars} |->
                      c[CHOOSE s \in ArgVars : VarAddr(s) = a]]
    /\ vheap = <<>>
    /\ stack = <<>>
    /\ args = [s \in ArgVars |-> VarAddr(s)]
    /\ results = [r \in ResultVars |-> 0]
    /\ seen = {}
    /\ invoked = Zero(function)
    /\ failed = Zero(function)
    /\ first = [x \in Args(function) |-> None]
    /\ returned = [x \in Args(function) |-> {}]
    /\ origin = "none"
    /\ last = [op |-> "init", var |-> "none", res |-> "none", outcome |-> "none"]

\* Memoizer::new(function): a new instance in place of the old one
New ==
    /\ stack = <<>>
    /\ function' = function
    /\ map' = NewMap(map)
    /\ kheap' = Reclaim(kheap, DOMAIN map' \cup Range(args))
    /\ vheap' = Reclaim(vheap, Range(map') \cup Range(results))
    /\ seen' = {}
    /\ invoked' = Zero(function)
    /\ failed' = Zero(function)
    /\ first' = [x \in Args(function) |-> None]
    /\ returned' = [x \in Args(function) |-> {}]
    /\ origin' = "none"
    /\ last' = [op |-> "new", var |-> "none", res |-> "none", outcome |-> "none"]
    /\ UNCHANGED <<args, results, stack>>

\* the caller mutates the argument value in its variable s in place
MutateArg(s, x) ==
    /\ stack = <<>>
    /\ kheap[args[s]] # x
    /\ kheap' = [kheap EXCEPT ![args[s]] = x]
    /\ last' = [op |-> "mutate_arg", var |-> s, res |-> "none", outcome |-> "none"]
    /\ UNCHANGED <<function, map, vheap, args, results, stack, seen, invoked, failed, first,
                   returned, origin>>

\* the caller mutates the value in its result variable r in place
MutateResult(r, w) ==
    /\ stack = <<>>
    /\ results[r] # 0
    /\ vheap[results[r]] # w
    /\ vheap' = [vheap EXCEPT ![results[r]] = w]
    /\ last' = [op |-> "mutate_result", var |-> "none", res |-> r, outcome |-> "none"]
    /\ UNCHANGED <<function, map, kheap, args, results, stack, seen, invoked, failed, first,
                   returned, origin>>

\* the value heap once the caller has given up what its variable r held
Taken(r) == Reclaim(vheap, Range(map) \cup Range([results EXCEPT ![r] = 0]))

\* value(arg), the entry occupied: the stored value is cloned and returned
ValueHit(s, r) ==
  /\ stack = <<>>
  /\ LET arg == args[s]
        x == kheap[arg]
        key == CloneKey(kheap, arg)
        kh == Store(kheap, key, x)
        found == Find(map, kh, key)
    IN
     /\ found # {}
     /\ LET entry == CHOOSE a \in found : TRUE
            ret == CloneValue(Taken(r), map[entry])
            vh == Store(Taken(r), ret, vheap[map[entry]])
        IN
         /\ map' = map
         /\ results' = [results EXCEPT ![r] = ret]
         /\ kheap' = Reclaim(kh, DOMAIN map' \cup Range(args))
         /\ vheap' = Reclaim(vh, Range(map') \cup Range(results'))
         /\ returned' = [returned EXCEPT ![x] = @ \cup {vh[ret]}]
         /\ seen' = seen \cup {x}
         /\ last' = [op |-> "value", var |-> s, res |-> r, outcome |-> "hit"]
     /\ UNCHANGED <<function, args, stack, invoked, failed, first, origin>>

\* value(arg), the entry vacant: the function is invoked on arg, its result
\* inserted under the cloned key, and a clone of the inserted value returned
ValueMiss(s, r) ==
  /\ stack = <<>>
  /\ LET arg == args[s]
        x == kheap[arg]
        key == CloneKey(kheap, arg)
        kh == Store(kheap, key, x)
        found == Find(map, kh, key)
    IN
     /\ found = {}
     /\ \E v \in Results(function, x) :
         LET val == Fresh(Taken(r))
             vh1 == Store(Taken(r), val, v)
             ret == CloneValue(vh1, val)
             vh == Store(vh1, ret, vh1[val])
         IN
          /\ map' = Insert(map, key, val)
          /\ results' = [results EXCEPT ![r] = ret]
          /\ kheap' = Reclaim(kh, DOMAIN map' \cup Range(args))
          /\ vheap' = Reclaim(vh, Range(map') \cup Range(results'))
          /\ first' = [first EXCEPT ![x] = IF @ = None THEN Some(v) ELSE @]
          /\ returned' = [returned EXCEPT ![x] = @ \cup {vh[ret]}]
     /\ seen' = seen \cup {x}
     /\ invoked' = [invoked EXCEPT ![x] = @ + 1]
     /\ origin' = s
     /\ last' = [op |-> "value", var |-> s, res |-> r, outcome |-> "miss"]
     /\ UNCHANGED <<function, args, stack, failed>>

\* value(arg), the entry vacant and the function fails: the panic unwinds
\* through value(), which drops the key and inserts nothing
ValueFail(s) ==
  /\ stack = <<>>
  /\ LET arg == args[s]
        x == kheap[arg]
        key == CloneKey(kheap, arg)
        kh == Store(kheap, key, x)
        found == Find(map, kh, key)
    IN
     /\ found = {}
     /\ Fails(function, x)
     /\ Failures < MaxFail
     /\ map' = Unwind(map, key)
     /\ kheap' = Reclaim(kh, DOMAIN map' \cup Range(args))
     /\ seen' = seen \cup {x}
     /\ invoked' = [invoked EXCEPT ![x] = @ + 1]
     /\ failed' = [failed EXCEPT ![x] = @ + 1]
     /\ origin' = s
     /\ last' = [op |-> "value", var |-> s, res |-> "none",
                 outcome |-> OnPanic("fail")]
     /\ UNCHANGED <<function, vheap, args, results, stack, first, returned>>

Next ==
    \/ New
    \/ \E s \in ArgVars : \E x \in Args(function) : MutateArg(s, x)
    \/ \E r \in ResultVars :
         \E w \in (IF results[r] = 0 THEN {}
                   ELSE Mutations(function, vheap[results[r]])) :
            MutateResult(r, w)
    \/ \E s \in ArgVars : \E r \in ResultVars : ValueHit(s, r)
    \/ \E s \in ArgVars : \E r \in ResultVars : ValueMiss(s, r)
    \/ \E s \in ArgVars : ValueFail(s)

Spec == Init /\ [][Next]_vars

\* ------------------------------------------------- value() step by step
\* the innermost value() call in progress, and the calls around it
Top == stack[Len(stack)]
Pop == SubSeq(stack, 1, Len(stack) - 1)

\* the key objects the calls in progress hold
FrameKeys(st) == {st[i].key : i \in 1..Len(st)}

\* a receiver that any number of calls can hold at once
Shared(st) == TRUE

\* value(&mut self, ..): a call can take the instance when no call holds it
Exclusive(st) == st = <<>>

\* a function that is run again once it has returned
Again(pc) == "function"

\* or_insert_with once its closure has returned: the entry holds the value,
\* which is left to clone and return
Then(pc) == "occupied"

\* whether the body of f may call value(): of opaque alone nothing is known
CallsBack(f) == f = "opaque"

\* the body of value() up to the entry: the key cloned and looked up, and,
\* the entry vacant, the function invoked
Enter(s, r) ==
    LET arg == args[s]
        x == kheap[arg]
        key == CloneKey(kheap, arg)
        kh == Store(kheap, key, x)
        found == Find(map, kh, key)
    IN
     /\ kheap' = kh
     /\ stack' = Append(stack, [var |-> s, res |-> r, key |-> key,
                                miss |-> found = {},
                                pc |-> IF found = {} THEN "function"
                                       ELSE "occupied"])
     /\ seen' = seen \cup {x}
     /\ IF found = {}
        THEN /\ invoked' = [invoked EXCEPT ![x] = @ + 1]
             /\ origin' = s
        ELSE UNCHANGED <<invoked, origin>>
     /\ last' = [op |-> "enter", var |-> s, res |-> r, outcome |-> "none"]
     /\ UNCHANGED <<function, map, vheap, args, results, failed, first, returned>>

\* the innermost call ends with the panic o of its function
Panic(o) ==
    LET x == kheap[Top.key] IN
     /\ Failures < MaxFail
     /\ map' = Unwind(map, Top.key)
     /\ kheap' = Reclaim(kheap, DOMAIN map' \cup Range(args) \cup FrameKeys(Pop))
     /\ failed' = [failed EXCEPT ![x] = @ + 1]
     /\ stack' = Pop
     /\ last' = [op |-> "value", var |-> Top.var, res |-> "none",
                 outcome |-> OnPanic(o)]
     /\ UNCHANGED <<function, vheap, args, results, seen, invoked, first,
                    returned, origin>>

\* the caller calls value(arg)
Call(s, r) ==
    /\ stack = <<>>
    /\ Exclusive(stack)
    /\ Enter(s, r)

\* the function, running, calls value() on the instance that runs it: the
\* instance is held by the call in progress, and the function fails
Reenter(s, r) ==
    /\ stack # <<>>
    /\ Top.pc = "function"
    /\ CallsBack(function)
    /\ IF Exclusive(stack) THEN Enter(s, r) ELSE Panic("refused")

\* the function returns and its result is inserted under the cloned key
FnReturn ==
    /\ stack # <<>>
    /\ Top.pc = "function"
    /\ \E v \in Results(function, kheap[Top.key]) :
        LET x == kheap[Top.key]
            val == Fresh(vheap)
        IN
         /\ map' = Insert(map, Top.key, val)
         /\ vheap' = Reclaim(Store(vheap, val, v), Range(map') \cup Range(results))
         /\ first' = [first EXCEPT ![x] = IF @ = None THEN Some(v) ELSE @]
    /\ stack' = [stack EXCEPT ![Len(stack)].pc = Then(@)]
    /\ last' = [op |-> "insert", var |-> Top.var, res |-> Top.res,
                outcome |-> "none"]
    /\ UNCHANGED <<function, kheap, args, results, seen, invoked, failed,
                   returned, origin>>

\* the function panics
FnPanic ==
    /\ stack # <<>>
    /\ Top.pc = "function"
    /\ Fails(function, kheap[Top.key])
    /\ Panic("fail")

\* the value of the entry is cloned and returned
Return ==
    /\ stack # <<>>
    /\ Top.pc = "occupied"
    /\ LET x == kheap[Top.key]
           r == Top.res
           entry == CHOOSE a \in Find(map, kheap, Top.key) : TRUE
           ret == CloneValue(Taken(r), map[entry])
           vh == Store(Taken(r), ret, vheap[map[entry]])
       IN
        /\ results' = [results EXCEPT ![r] = ret]
        /\ kheap' = Reclaim(kheap, DOMAIN map \cup Range(args) \cup FrameKeys(Pop))
        /\ vheap' = Reclaim(vh, Range(map) \cup Range(results'))
        /\ returned' = [returned EXCEPT ![x] = @ \cup {vh[ret]}]
    /\ stack' = Pop
    /\ last' = [op |-> "value", var |-> Top.var, res |-> Top.res,
                outcome |-> IF Top.miss THEN "miss" ELSE "hit"]
    /\ UNCHANGED <<function, map, args, seen, invoked, failed, first, origin>>

NextSteps ==
    \/ New
    \/ \E s \in ArgVars : \E x \in Args(function) : MutateArg(s, x)
    \/ \E r \in ResultVars :
         \E w \in (IF results[r] = 0 THEN {}
                   ELSE Mutations(function, vheap[results[r]])) :
            MutateResult(r, w)
    \/ \E s \in ArgVars : \E r \in ResultVars : Call(s, r)
    \/ \E s \in ArgVars : \E r \in ResultVars : Reenter(s, r)
    \/ FnReturn
    \/ FnPanic
    \/ Return

SpecSteps == Init /\ [][NextSteps]_vars

\* the function, once invoked, ends
FunctionEnds == FnReturn \/ FnPanic \/ \E s \in ArgVars : \E r \in ResultVars : Reenter(s, r)

\* value() runs to its end without waiting: the function ends (the proviso
\* of termination), and what follows it in value() is executed
SpecStepsFair == SpecSteps /\ WF_vars(FunctionEnds) /\ WF_vars(Return)

\* ---------------------------------------------------- the last value() call
IsValue(l) == l.op = "value"
Returned(l) == l.op = "value" /\ l.outcome \in {"hit", "miss"}

\* the argument of the last call and the value it returned, right after it
LastArg == kheap[args[last.var]]
LastRet == vheap[results[last.res]]

OtherVar(s) == CHOOSE o \in ArgVars : o # s

\* ------------------------------------------------------------------ claims

\* C1 as stated: a value() call whose argument equals the argument of an
\* earlier call never invokes the wrapped function, so the function is
\* invoked at most once per distinct argument.
C1_NeverInvokedAgain ==
    /\ [][(IsValue(last') /\ LastArg' \in seen) => invoked' = invoked]_vars
    /\ [](\A x \in Args(function) : invoked[x] <= 1)

\* C1 amended: a value() call whose argument equals the argument of an
\* earlier call that returned never invokes the wrapped function, so the
\* function returns at most once per distinct argument.
C1_NeverInvokedAfterReturn ==
    /\ [][(IsValue(last') /\ returned[LastArg'] # {}) => invoked' = invoked]_vars
    /\ [](\A x \in Args(function) : invoked[x] - failed[x] <= 1)

\* a hit through one variable on the entry made through the other variable,
\* the two holding equal values at different addresses
C1_Witness ==
    /\ IsValue(last) /\ last.outcome = "hit"
    /\ origin = OtherVar(last.var)
    /\ Cardinality(DOMAIN map) = 1
    /\ Failures = 0
    /\ kheap[args[origin]] = LastArg
    /\ args[origin] # args[last.var]

\* C2: any two value(a) calls of one instance return equal results.
C2_EqualResults ==
    \A x \in Args(function) : Cardinality(returned[x]) <= 1

\* a hit on an entry that is older than another entry of the map
C2_Witness ==
    /\ IsValue(last) /\ last.outcome = "hit"
    /\ \E a, b \in DOMAIN map : a < b /\ kheap[a] = LastArg

\* C3: every stored value is the result the wrapped function returned at
\* the call that first inserted its key.
C3_StoredIsFirst ==
    \A a \in DOMAIN map : first[kheap[a]] = Some(vheap[map[a]])

\* the caller has changed the value it was returned while the entry exists
C3_Witness ==
    /\ last.op = "mutate_result"
    /\ DOMAIN map # {}
    /\ \A a \in DOMAIN map : vheap[map[a]] # vheap[results[last.res]]

\* C4: value(arg) returns a value equal to the one stored for arg after the
\* call, which is f(arg) when the wrapped function f is deterministic.
C4_ReturnsStored ==
    Returned(last) =>
        /\ Stored(LastArg) = {LastRet}
        /\ Deterministic(function) => Results(function, LastArg) = {LastRet}

\* add_two gave 4 for 2 and now gives 5 for 3
C4_Witness ==
    /\ function = "add_two"
    /\ Returned(last)
    /\ LastArg = 3 /\ LastRet = 5
    /\ returned[2] = {4}

\* C5: the map is append-only: an entry stays, with its value, and the
\* number of entries never decreases while the instance lives.
C5_AppendOnly ==
    [][last'.op # "new" =>
        /\ \A x \in Keys : StoredIn(map', kheap', vheap', x) = Stored(x)
        /\ Cardinality(DOMAIN map') >= Cardinality(DOMAIN map)]_vars

\* a call on a map that has two entries
C5_Witness ==
    /\ IsValue(last)
    /\ Cardinality(DOMAIN map) >= 2

\* C6: value() returns an independent copy: mutating what it returned
\* changes no stored value, hence no later result.
C6_ResultIsolated ==
    /\ [][last'.op = "mutate_result" =>
            \A x \in Keys : StoredIn(map', kheap', vheap', x) = Stored(x)]_vars
    /\ [](\A r \in ResultVars : results[r] \notin Range(map))

\* the caller mutated what value(a) returned, and a is still stored
C6_Witness ==
    /\ last.op = "mutate_result"
    /\ \E x \in Keys : vheap[results[last.res]] \notin Stored(x)
    /\ \E s \in ArgVars : kheap[args[s]] \in Keys

\* C7: the map holds its own duplicate of each key: mutating the caller's
\* argument after the call changes neither the keys nor what they map to.
C7_KeyIsolated ==
    /\ [][last'.op = "mutate_arg" =>
            /\ KeysIn(map', kheap') = Keys
            /\ \A x \in Keys : StoredIn(map', kheap', vheap', x) = Stored(x)]_vars
    /\ [](\A s \in ArgVars : args[s] \notin DOMAIN map)

\* the caller mutated the argument whose call made the only entry
C7_Witness ==
    /\ last.op = "mutate_arg"
    /\ origin = last.var
    /\ Failures = 0
    /\ Cardinality(DOMAIN map) = 1
    /\ kheap[args[last.var]] \notin Keys

\* C8: a call with an argument b that is not cached invokes the function on
\* b, whatever else is cached, and returns its result; the entries of the
\* other arguments stay as they were.
C8_KeysIndependent ==
    [][(IsValue(last') /\ LastArg' \notin Keys) =>
        /\ invoked' = [invoked EXCEPT ![LastArg'] = @ + 1]
        /\ Returned(last') =>
            /\ LastRet' \in Results(function, LastArg')
            /\ \A x \in Keys : StoredIn(map', kheap', vheap', x) = Stored(x)]_vars

\* b was computed while another argument was cached
C8_Witness ==
    /\ IsValue(last) /\ last.outcome = "miss"
    /\ Cardinality(DOMAIN map) >= 2

\* C9: new() yields an instance with an empty map and the given function,
\* invokes nothing, and the first call for any argument is a miss.
C9_NewIsEmpty ==
    /\ [][last'.op = "new" =>
            /\ DOMAIN map' = {}
            /\ function' = function
            /\ \A x \in Args(function) : invoked'[x] = 0]_vars
    /\ [][(IsValue(last') /\ LastArg' \notin seen) => last'.outcome # "hit"]_vars
    /\ [](last.op = "init" => DOMAIN map = {})

\* a new instance, built when an earlier one had returned a value
C9_Witness ==
    /\ last.op = "new"
    /\ \E r \in ResultVars : results[r] # 0
    /\ DOMAIN map = {}

\* C10: with a function that is not deterministic, every value(a) that
\* returns gives the result of the first invocation for a that returned.
C10_Frozen ==
    (~Deterministic(function) /\ Returned(last)) => first[LastArg] = Some(LastRet)

\* a hit that gives the larger of the two results the function can give
C10_Witness ==
    /\ function = "opaque"
    /\ IsValue(last) /\ last.outcome = "hit"
    /\ LastRet = LastArg + 1

\* the map as the set of its <<key, value>> contents
View == {<<kheap[a], vheap[map[a]]>> : a \in DOMAIN map}

\* the invocations of the function that returned
Completed == Sum(invoked, DOMAIN invoked) - Failures

\* C11: when the wrapped function fails during value(arg), the call ends
\* with that failure: the function is not invoked a second time by the call,
\* and the caller is returned no value.
C11_FailurePropagates ==
    [][(\E x \in Args(function) : failed'[x] > failed[x]) =>
        /\ IsValue(last') /\ last'.outcome = "fail"
        /\ invoked' = [invoked EXCEPT ![LastArg'] = @ + 1]
        /\ failed' = [failed EXCEPT ![LastArg'] = @ + 1]
        /\ results' = results /\ vheap' = vheap
        /\ returned' = returned]_vars

\* a call failed while the caller holds the value an earlier call returned
C11_Witness ==
    /\ IsValue(last) /\ last.outcome = "fail"
    /\ \E r \in ResultVars : results[r] # 0
    /\ failed[LastArg] = 1

\* C12: a hit leaves the map as it is; a miss adds one entry, keyed by the
\* argument, and leaves every other entry as it is.
C12_Frame ==
    [][IsValue(last') =>
        /\ last'.outcome = "hit" => map' = map /\ View' = View
        /\ last'.outcome = "miss" =>
            /\ LastArg' \notin Keys
            /\ KeysIn(map', kheap') = Keys \cup {LastArg'}
            /\ Cardinality(DOMAIN map') = Cardinality(DOMAIN map) + 1
            /\ View \subseteq View'
            /\ Cardinality(View') = Cardinality(View) + 1]_vars

\* a miss on a map that held an entry the caller has just read
C12_Witness ==
    /\ IsValue(last) /\ last.outcome = "miss"
    /\ Cardinality(View) = 2
    /\ \A x \in Keys : returned[x] # {}
    /\ kheap[args[OtherVar(last.var)]] \in Keys \ {LastArg}

\* C15: between calls, the keys of the map are the arguments for which a
\* value() call has returned, and there are as many entries as invocations
\* of the function that returned.
C15_KeysAreCompletedCalls ==
    /\ Keys = {x \in Args(function) : returned[x] # {}}
    /\ Cardinality(DOMAIN map) = Completed

\* two entries, after a call that failed
C15_Witness ==
    /\ Cardinality(DOMAIN map) = 2
    /\ Failures = 1
    /\ IsValue(last) /\ last.outcome = "hit"

\* C16: a failure of the function leaves the map as it was, with no entry
\* for the argument, and the next value() with that argument is a miss that
\* invokes the function again.
C16_FailureLeavesMap ==
    /\ [][(IsValue(last') /\ last'.outcome = "fail") =>
            /\ map' = map /\ View' = View
            /\ LastArg' \notin KeysIn(map', kheap')]_vars
    /\ [][(IsValue(last) /\ last.outcome = "fail"
           /\ IsValue(last') /\ LastArg' = LastArg) =>
            /\ last'.outcome # "hit"
            /\ invoked' = [invoked EXCEPT ![LastArg] = @ + 1]]_vars

\* the function failed on the argument, and the call that followed inserted it
C16_Witness ==
    /\ IsValue(last) /\ last.outcome = "miss"
    /\ failed[LastArg] = 1
    /\ invoked[LastArg] = 2

\* C17: with a deterministic function, the map is determined by the set of
\* the arguments value() was called with: one entry <<x, f(x)>> for each,
\* whatever the order of the calls and however often they were repeated.
C17_MapOfArgumentSet ==
    Deterministic(function) =>
        /\ View = {<<x, CHOOSE v \in Results(function, x) : TRUE>> : x \in seen}
        /\ Cardinality(DOMAIN map) = Cardinality(seen)

\* add_two called with 3, then with 2, then with one of them again
C17_Witness ==
    /\ function = "add_two"
    /\ DOMAIN map = {3, 4}
    /\ kheap[3] = 3 /\ kheap[4] = 2
    /\ IsValue(last) /\ last.outcome = "hit"

\* C13 as stated: a call of value() from within the wrapped function, on
\* the instance that runs it, starts a nested call.
C13_Reentry ==
    [][(\E s \in ArgVars : \E r \in ResultVars : Reenter(s, r)) =>
            Len(stack') = Len(stack) + 1]_vars

\* C13 amended: while a value() call is in progress on an instance, no
\* nested value() call on that instance starts.
C13_NoReentry == Len(stack) <= 1

\* the function called value() on its instance and was refused
C13_Witness ==
    /\ IsValue(last) /\ last.outcome = "refused"
    /\ stack = <<>>

\* C14: a value() call whose function ends comes to its end, and one whose
\* entry is occupied returns; on a hit the function is not invoked.
C14_Terminates ==
    /\ (stack # <<>>) ~> (stack = <<>>)
    /\ (stack # <<>> /\ Top.pc = "occupied") ~> (stack = <<>> /\ Returned(last))
    /\ [](\A i \in 1..Len(stack) : stack[i].pc = "function" => stack[i].miss)

\* a call that invoked the function has returned
C14_Witness ==
    /\ stack = <<>>
    /\ IsValue(last) /\ last.outcome = "miss"
    /\ invoked[LastArg] >= 1
    /\ returned[LastArg] # {}

====
